---------------------------- MODULE Spec2Model ----------------------------
(***************************************************************************)
(* A model of td::FileFd (tdutils/td/utils/port/FileFd.cpp): one file of   *)
(* the file system, the FileFd values opened on it, and the native calls   *)
(* each FileFd operation issues on the two platform branches the source    *)
(* compiles (TD_PORT_POSIX and TD_PORT_WINDOWS).                            *)
(*                                                                         *)
(* Every operation is one action.  It leaves a record of the call in       *)
(* `last`: the arguments, the Result/Status returned, and what the call    *)
(* did on the way (native calls issued, LOG(ERROR) records, sleeps).       *)
(* lock() is the one operation that suspends (usleep_for in its loop), so  *)
(* it is an action for the call with its first attempt and an action for   *)
(* each wake-up and retry.                                                  *)
(***************************************************************************)
EXTENDS Integers, Sequences, FiniteSets, TLC

VARIABLES
  platform,   \* "POSIX" | "WINDOWS": the branch of the #if the build compiled
  sameProc,   \* TRUE when both FileFd values live in one process
  file,       \* the file at the path: [exists, data]
  fd,         \* fd[h]: the FileFd value h (impl_, its native fd, PollableFdInfo flags)
  locks,      \* the native advisory locks on the file, by lock owner
  lk,         \* lk[h]: the position of h's thread inside lock()'s retry loop
  excl,       \* excl[h]: lock(Write) returned OK on h and nothing released it since
  native,     \* native[id]: the native handle id: closed, held by a FileFd, or by a caller
  last        \* the record of the last call made

vars == <<platform, sameProc, file, fd, locks, lk, excl, native, last>>

---------------------------------------------------------------------------
(* Bounds of the model.                                                    *)

MaxFile == 2     \* longest file, in bytes
MaxBuf == 2      \* longest buffer (Slice / MutableSlice) passed to an operation
MaxIntr == 1     \* most EINTR results skip_eintr sees in one call
MaxTries == 3    \* largest max_tries passed to lock()
MaxShared == 2   \* most shared locks one Windows handle stacks
MaxNative == 2   \* most native handles open at once

NativeIds == 1..MaxNative

Handles == {1, 2}
Platforms == {"POSIX", "WINDOWS"}

Min(a, b) == IF a < b THEN a ELSE b
Max(a, b) == IF a > b THEN a ELSE b

---------------------------------------------------------------------------
(* Open flags.  The bit values live in FileFd.h; the code only ever tests  *)
(* membership, so a flags value is the set of the bits set in it.          *)
(* "Unknown" stands for any bit outside the six enumerated ones.           *)

KnownFlags == {"Write", "Read", "Truncate", "Create", "Append", "CreateNew"}
AllFlagBits == KnownFlags \cup {"Unknown"}

\* FileFd::open, lines 98-104: which of the two checks rejects the flags.
ValidateFlagsNoRW(flags) ==
  IF flags \ KnownFlags # {} THEN "has failed to be"
  ELSE "ok"

ValidateFlags(flags) ==
  IF flags \ KnownFlags # {} THEN "has failed to be"
  ELSE IF flags \cap {"Write", "Read"} = {} THEN "can't be"
  ELSE "ok"

\* FileFd::open, POSIX branch, lines 107-131: the flags handed to ::open.
PosixNativeFlagsNoExcl(flags) ==
  (IF {"Write", "Read"} \subseteq flags THEN {"O_RDWR"}
   ELSE IF "Write" \in flags THEN {"O_WRONLY"}
   ELSE {"O_RDONLY"})
  \cup (IF "Truncate" \in flags THEN {"O_TRUNC"} ELSE {})
  \cup (IF flags \cap {"Create", "CreateNew"} # {} THEN {"O_CREAT"} ELSE {})
  \cup (IF "Append" \in flags THEN {"O_APPEND"} ELSE {})

PosixNativeFlags(flags) ==
  (IF {"Write", "Read"} \subseteq flags THEN {"O_RDWR"}
   ELSE IF "Write" \in flags THEN {"O_WRONLY"}
   ELSE {"O_RDONLY"})
  \cup (IF "Truncate" \in flags THEN {"O_TRUNC"} ELSE {})
  \cup (IF "Create" \in flags THEN {"O_CREAT"}
        ELSE IF "CreateNew" \in flags THEN {"O_CREAT", "O_EXCL"}
        ELSE {})
  \cup (IF "Append" \in flags THEN {"O_APPEND"} ELSE {})

\* FileFd::open, Windows branch, lines 146-154: desired_access.
WinDesiredAccess(flags) ==
  IF {"Write", "Read"} \subseteq flags THEN {"GENERIC_READ", "GENERIC_WRITE"}
  ELSE IF "Write" \in flags THEN {"GENERIC_WRITE"}
  ELSE {"GENERIC_READ"}

\* FileFd::open, Windows branch, lines 159-174: creation_disposition.
WinCreationDispositionNoTruncate(flags) ==
  IF "Create" \in flags THEN "OPEN_ALWAYS"
  ELSE IF "CreateNew" \in flags THEN "CREATE_NEW"
  ELSE IF "Truncate" \in flags THEN "TRUNCATE_EXISTING"
  ELSE "OPEN_EXISTING"

WinCreationDisposition(flags) ==
  IF "Create" \in flags
    THEN (IF "Truncate" \in flags THEN "CREATE_ALWAYS" ELSE "OPEN_ALWAYS")
  ELSE IF "CreateNew" \in flags THEN "CREATE_NEW"
  ELSE IF "Truncate" \in flags THEN "TRUNCATE_EXISTING"
  ELSE "OPEN_EXISTING"

---------------------------------------------------------------------------
(* The native open calls.  What ::open does with O_CREAT/O_EXCL/O_TRUNC    *)
(* and what CreateFile does with a creation disposition, as one of five    *)
(* dispositions; and the access each grants.                               *)

\* ::open(filepath, native_flags, mode), line 133.
PosixDisposition(nf) ==
  IF {"O_CREAT", "O_EXCL"} \subseteq nf THEN "create-exclusive"
  ELSE IF {"O_CREAT", "O_TRUNC"} \subseteq nf THEN "create-or-truncate"
  ELSE IF "O_CREAT" \in nf THEN "create-or-open"
  ELSE IF "O_TRUNC" \in nf THEN "truncate-existing-only"
  ELSE "open-existing-only"

PosixAccess(nf) ==
  IF "O_RDWR" \in nf THEN "rw" ELSE IF "O_WRONLY" \in nf THEN "w" ELSE "r"

\* CreateFile(w_filepath, desired_access, share_mode, ..., creation_disposition), lines 177-179.
WinDisposition(cd) ==
  CASE cd = "CREATE_ALWAYS" -> "create-or-truncate"
    [] cd = "OPEN_ALWAYS" -> "create-or-open"
    [] cd = "CREATE_NEW" -> "create-exclusive"
    [] cd = "TRUNCATE_EXISTING" -> "truncate-existing-only"
    [] OTHER -> "open-existing-only"

WinAccess(da) ==
  IF da = {"GENERIC_READ", "GENERIC_WRITE"} THEN "rw"
  ELSE IF da = {"GENERIC_WRITE"} THEN "w" ELSE "r"

NoFile == [exists |-> FALSE, data |-> <<>>]

\* The outcome of a native open with disposition d on file f: whether it
\* succeeds, the native error code if not, and the file afterwards.
\* `fault` is a failure of the environment (permissions, ...), "none" for none.
\* `trunc` says whether a truncating disposition truncates: always, except
\* that O_TRUNC with O_RDONLY is unspecified by POSIX.
OpenOutcome(plat, d, acc, f, fault, trunc) ==
  LET exists == f.exists
      eexist == IF plat = "POSIX" THEN "EEXIST" ELSE "ERROR_FILE_EXISTS"
      enoent == IF plat = "POSIX" THEN "ENOENT" ELSE "ERROR_FILE_NOT_FOUND"
      fail(code) == [ok |-> FALSE, code |-> code, file |-> f]
      done(g) == [ok |-> TRUE, code |-> "none", file |-> g]
      fresh == [exists |-> TRUE, data |-> <<>>]
  IN  IF fault # "none" THEN fail(fault)
      ELSE IF d = "create-exclusive"
        THEN (IF exists THEN fail(eexist) ELSE done(fresh))
      ELSE IF d = "create-or-truncate"
        THEN (IF exists /\ ~trunc THEN done(f) ELSE done(fresh))
      ELSE IF d = "create-or-open"
        THEN (IF exists THEN done(f) ELSE done(fresh))
      ELSE IF d = "truncate-existing-only"
        THEN (IF ~exists THEN fail(enoent)
              ELSE IF plat = "WINDOWS" /\ acc = "r" THEN fail("ERROR_INVALID_PARAMETER")
              ELSE IF trunc THEN done(fresh) ELSE done(f))
      ELSE (IF exists THEN done(f) ELSE fail(enoent))

---------------------------------------------------------------------------
(* The state.                                                              *)

\* FileFd with impl_ == nullptr (FileFd::FileFd() = default, line 89).
EmptyFd ==
  [open |-> FALSE, nfd |-> 0, acc |-> "r", app |-> FALSE, pos |-> 0, flags |-> {}]

\* FileFd::from_native_fd, lines 198-203: a fresh impl holding the native fd
\* nfd (opened with access acc, in append mode or not, its file pointer at
\* pos), with PollFlags::Write() added to its PollableFdInfo.
from_native_fd_NoFlags(nfd, acc, app, pos) ==
  [open |-> TRUE, nfd |-> nfd, acc |-> acc, app |-> app, pos |-> pos, flags |-> {}]

from_native_fd(nfd, acc, app, pos) ==
  [open |-> TRUE, nfd |-> nfd, acc |-> acc, app |-> app, pos |-> pos,
   flags |-> {"Write"}]

\* A native handle that is not open; one held by the impl of a FileFd (the
\* FileFd value carries its access mode and file pointer); one held by a
\* caller as a NativeFd value.
NativeClosed == [st |-> "closed", acc |-> "r", app |-> FALSE, pos |-> 0]
NativeImpl == [st |-> "impl", acc |-> "r", app |-> FALSE, pos |-> 0]
NativeHeld(f) == [st |-> "caller", acc |-> f.acc, app |-> f.app, pos |-> f.pos]

\* The native handle the next successful native open returns to FileFd h: one
\* that is not open.  Which one does not matter to the program; the model
\* takes the one numbered as the FileFd when it is free, else the lowest.
HasFreeNative == \E id \in NativeIds : native[id].st = "closed"
FreshNative(h) ==
  IF h \in NativeIds /\ native[h].st = "closed" THEN h
  ELSE CHOOSE id \in NativeIds :
         /\ native[id].st = "closed"
         /\ \A j \in NativeIds : native[j].st = "closed" => id <= j

\* The destruction of the NativeFd holding native handle id: the handle is
\* closed.
ReleaseNative(nat, id) == [nat EXCEPT ![id] = NativeClosed]

\* impl_.reset() (lines 411 and 424): the FileFd value afterwards.
ImplResetKeepsImpl(f) == f

ImplReset(f) == EmptyFd

\* The thread of FileFd h is not inside lock().
Idle ==
  [active |-> FALSE, mode |-> "Unlock", max |-> 0, tries |-> 0, attempts |-> 0,
   sleeps |-> 0]

\* The record of a call: `res` is "ok" or "err"; `kind` of an error is "Error"
\* (Status::Error: no native code) or "OsError" (OS_ERROR / Status::PosixError:
\* carries the native code `code`); `calls` counts the native calls issued,
\* `logs` the LOG(ERROR) records written, `sleeps` the usleep_for calls, `len`
\* the size of the buffer a successful pread was given, `got` the native
\* handle the call obtained and `rel` the one it released (0: none).  A call
\* that ends the process has `res` "abort" and as `kind` what ended it: "CHECK",
\* "LOG(FATAL)" or "SIGSEGV"; a call whose behaviour is undefined and that went
\* on with an indeterminate value has `res` "undefined".
NoCall ==
  [op |-> "none", h |-> 0, res |-> "none", kind |-> "none", code |-> "none",
   msg |-> "", flags |-> {}, arg |-> 0, n |-> 0, data |-> <<>>,
   calls |-> 0, logs |-> 0, sleeps |-> 0, fault |-> "none", disp |-> "none",
   acc |-> "none", mode |-> "none", len |-> 0, got |-> 0, rel |-> 0]

Call(op, h) == [NoCall EXCEPT !.op = op, !.h = h]

\* The process runs: no call aborted it and none left it in an undefined state.
Alive == last.res \notin {"abort", "undefined"}

\* The owner of the native locks taken through FileFd h: fcntl(F_SETLK) locks
\* belong to the process (line 375), LockFileEx locks to the handle (line 390).
LockOwner(h) ==
  IF platform = "POSIX" THEN (IF sameProc \/ h = 1 THEN "p1" ELSE "p2")
  ELSE (IF h = 1 THEN "h1" ELSE "h2")

Owners == {"p1", "p2", "h1", "h2"}
NoLock == [x |-> 0, s |-> 0]

InitFiles ==
  {NoFile, [exists |-> TRUE, data |-> <<>>], [exists |-> TRUE, data |-> <<1, 2>>]}

Init ==
  /\ platform \in Platforms
  /\ sameProc \in BOOLEAN
  /\ file \in InitFiles
  /\ fd = [h \in Handles |-> EmptyFd]
  /\ locks = [o \in Owners |-> NoLock]
  /\ lk = [h \in Handles |-> Idle]
  /\ excl = [h \in Handles |-> FALSE]
  /\ native = [id \in NativeIds |-> NativeClosed]
  /\ last = NoCall

---------------------------------------------------------------------------
(* open, close, stat.                                                      *)

\* The EINTR results a native call can meet: skip_eintr retries them on the
\* POSIX branch; the Windows calls report no interruption.
Interrupts == IF platform = "POSIX" THEN 0..MaxIntr ELSE {0}

OpenFaults ==
  IF platform = "POSIX" THEN {"none", "EACCES"} ELSE {"none", "ERROR_ACCESS_DENIED"}

\* The native error of an open when the process has no descriptor or handle
\* left.
NoNativeLeft ==
  IF platform = "POSIX" THEN "EMFILE" ELSE "ERROR_TOO_MANY_OPEN_FILES"

\* FileFd::open, lines 184-192: the handle CreateFile returned is wrapped in the
\* local NativeFd before SetFilePointerEx is tried, so the error return
\* destroys the NativeFd and with it closes the handle.
AppendSeekFailedLeaksHandle(nat, id) == nat

AppendSeekFailed(nat, id) == ReleaseNative(nat, id)

\* FileFd::open, lines 97-196, the FileFd returned moved into the empty value h.
\* nintr: the EINTR results skip_eintr retries (POSIX); pathok: to_wstring
\* succeeds (Windows); seekok: SetFilePointerEx(FILE_END) succeeds (Windows,
\* Append); rdtrunc: O_RDONLY | O_TRUNC truncates (POSIX leaves it unspecified).
Open(h, flags, fault, nintr, pathok, seekok, rdtrunc) ==
  /\ Alive
  /\ ~fd[h].open
  /\ ~lk[h].active
  /\ LET c == [Call("open", h) EXCEPT !.flags = flags]
         v == ValidateFlags(flags)
         posix == platform = "POSIX"
         disp == IF posix THEN PosixDisposition(PosixNativeFlags(flags))
                 ELSE WinDisposition(WinCreationDisposition(flags))
         acc == IF posix THEN PosixAccess(PosixNativeFlags(flags))
                ELSE WinAccess(WinDesiredAccess(flags))
         trunc == IF posix /\ acc = "r" THEN rdtrunc ELSE TRUE
         out == OpenOutcome(platform, disp, acc, file,
                            IF fault = "none" /\ ~HasFreeNative
                              THEN NoNativeLeft ELSE fault, trunc)
         n1 == IF posix THEN nintr + 1 ELSE 1
         nc == [c EXCEPT !.disp = disp, !.acc = acc, !.fault = fault]
         id == FreshNative(h)
         opened == [native EXCEPT ![id] = NativeImpl]
     IN  IF v # "ok"
           THEN /\ last' = [c EXCEPT !.res = "err", !.kind = "Error", !.msg = v]
                /\ UNCHANGED <<file, fd, native>>
         ELSE IF ~posix /\ ~pathok
           THEN /\ last' = [c EXCEPT !.res = "err", !.kind = "Error",
                                     !.msg = "Failed to convert file path"]
                /\ UNCHANGED <<file, fd, native>>
         ELSE IF ~out.ok
           THEN /\ last' = [nc EXCEPT !.res = "err", !.kind = "OsError",
                                      !.code = out.code, !.msg = "can't be",
                                      !.calls = n1]
                /\ UNCHANGED <<file, fd, native>>
         ELSE IF ~posix /\ "Append" \in flags /\ ~seekok
           THEN /\ last' = [nc EXCEPT !.res = "err", !.kind = "OsError",
                                      !.code = "ERROR_INVALID_FUNCTION",
                                      !.msg = "Failed to seek to the end of file",
                                      !.calls = 2, !.got = id,
                                      !.rel = IF AppendSeekFailed(opened, id)[id].st
                                                 = "closed" THEN id ELSE 0]
                /\ file' = out.file
                /\ native' = AppendSeekFailed(opened, id)
                /\ UNCHANGED fd
         ELSE /\ last' = [nc EXCEPT !.res = "ok", !.got = id,
                            !.calls = IF ~posix /\ "Append" \in flags THEN 2 ELSE n1]
              /\ file' = out.file
              /\ native' = opened
              /\ fd' = [fd EXCEPT ![h] =
                          from_native_fd(id, acc, posix /\ "Append" \in flags,
                            IF ~posix /\ "Append" \in flags
                              THEN Len(out.file.data) ELSE 0)]
  /\ UNCHANGED <<platform, sameProc, locks, lk, excl>>

\* FileFd::close, lines 410-412: impl_.reset().  Destroying the native fd closes
\* it, and closing releases the native locks of its owner on the file.
Close(h) ==
  /\ Alive
  /\ ~lk[h].active
  /\ fd' = [fd EXCEPT ![h] = ImplReset(fd[h])]
  /\ native' = IF fd[h].open THEN ReleaseNative(native, fd[h].nfd) ELSE native
  /\ locks' = IF fd[h].open THEN [locks EXCEPT ![LockOwner(h)] = NoLock] ELSE locks
  /\ excl' = [excl EXCEPT ![h] = FALSE]
  /\ last' = [Call("close", h) EXCEPT !.res = "ok", !.rel = fd[h].nfd]
  /\ UNCHANGED <<platform, sameProc, file, lk>>

\* FileFd::empty, lines 414-416.
empty(h) == ~fd[h].open

\* FileFd::stat().size_, lines 439-442 and 458-465; FileFd::get_size, lines 428-430.
StatSize(h) == Len(file.data)

\* CHECK(!empty()) failing (lines 440, 472, 484, 499): the process aborts.
CheckFailed(op, h) == [Call(op, h) EXCEPT !.res = "abort", !.kind = "CHECK"]

\* The failures GetFileInformationByHandleEx can report (lines 446-452 and
\* 458-464).  detail::fstat, which the POSIX branch calls (line 442), is not
\* part of this source: the model takes it to succeed.
StatFaults ==
  IF platform = "POSIX" THEN {"none"} ELSE {"none", "ERROR_INVALID_HANDLE"}

\* What FileFd::stat does when GetFileInformationByHandleEx fails, lines 449-452
\* and 461-464: LOG(FATAL) << error, which ends the process.
StatFailure(c, code) ==
  [c EXCEPT !.res = "abort", !.kind = "LOG(FATAL)", !.code = code,
            !.msg = "Stat failed", !.calls = 1]

\* FileFd::stat, lines 439-469, and FileFd::get_size, lines 428-430.
Stat(h, fault) ==
  /\ Alive
  /\ ~lk[h].active
  /\ last' = IF empty(h) THEN CheckFailed("stat", h)
             ELSE IF fault # "none" THEN StatFailure(Call("stat", h), fault)
             ELSE [Call("stat", h) EXCEPT !.res = "ok", !.n = StatSize(h),
                                          !.calls = 1]
  /\ UNCHANGED <<platform, sameProc, file, fd, locks, lk, excl, native>>

FlagSets == SUBSET AllFlagBits

NextOpen ==
  \/ \E flags \in FlagSets, fault \in OpenFaults, nintr \in Interrupts,
        pathok \in BOOLEAN, seekok \in BOOLEAN, rdtrunc \in BOOLEAN :
       Open(1, flags, fault, nintr, pathok, seekok, rdtrunc)
  \/ Close(1)
  \/ Stat(1, "none")

InitOpen == Init /\ sameProc = FALSE

SpecOpen == InitOpen /\ [][NextOpen]_vars

---------------------------------------------------------------------------
(* read, write, pread, pwrite, seek.                                       *)

\* The bytes a caller writes; 0 is the byte of a hole.
DataBytes == {1}
Buffers == UNION {[1..n -> DataBytes] : n \in 0..MaxBuf}

IoFaults ==
  IF platform = "POSIX" THEN {"none", "EAGAIN", "EWOULDBLOCK", "EIO", "EINVAL"}
  ELSE {"none", "ERROR_IO_PENDING", "ERROR_GEN_FAILURE"}

\* The native error of a read (wr = FALSE) or write (wr = TRUE) on a native fd
\* opened with access acc, "none" when the call goes through.
IoErrno(acc, wr, fault) ==
  IF fault # "none" THEN fault
  ELSE IF (wr /\ acc = "r") \/ (~wr /\ acc = "w")
    THEN (IF platform = "POSIX" THEN "EBADF" ELSE "ERROR_ACCESS_DENIED")
  ELSE "none"

\* The same for a positioned call at `offset`: the kernel rejects a negative
\* offset.
PositionedErrno(acc, wr, fault, offset) ==
  IF fault # "none" THEN fault
  ELSE IF offset < 0
    THEN (IF platform = "POSIX" THEN "EINVAL" ELSE "ERROR_INVALID_PARAMETER")
  ELSE IoErrno(acc, wr, fault)

\* FileFd::pwrite and FileFd::pread, lines 271-273 and 309-311: the offset
\* check made before anything else.
OffsetRejectedBelowMinusOne(offset) == offset < -1

OffsetRejected(offset) == offset < 0

\* The file contents after buf is written at byte offset at.
WriteAt(d, at, buf) ==
  IF Len(buf) = 0 THEN d
  ELSE [i \in 1..Max(Len(d), at + Len(buf)) |->
          IF i > at /\ i <= at + Len(buf) THEN buf[i - at]
          ELSE IF i <= Len(d) THEN d[i] ELSE 0]

\* The bytes a read of n bytes at byte offset at returns.
ReadAt(d, at, n) ==
  SubSeq(d, at + 1, at + Min(n, Max(0, Len(d) - at)))

\* The POSIX branches of write, read, pwrite and pread, lines 215-221, 248-254,
\* 285-291, 323-329: LOG(ERROR) unless errno is EAGAIN, EWOULDBLOCK or EIO.
PosixLogs(errno) ==
  IF errno # "EAGAIN" /\ errno # "EWOULDBLOCK" /\ errno # "EIO" THEN 1 ELSE 0

\* The error a failed native read or write returns: Status::PosixError after
\* skip_eintr retried nintr EINTR results (POSIX), OS_ERROR (Windows, lines
\* 227-229, 260-262, 301-303, 339-341).
IoError(c, code, nintr) ==
  IF platform = "POSIX"
    THEN [c EXCEPT !.res = "err", !.kind = "OsError", !.code = code,
                   !.msg = "has failed", !.logs = PosixLogs(code),
                   !.calls = nintr + 1]
    ELSE [c EXCEPT !.res = "err", !.kind = "OsError", !.code = code,
                   !.msg = "Failed to", !.calls = 1]

IoCalls(nintr) == IF platform = "POSIX" THEN nintr + 1 ELSE 1

\* The operations whose POSIX branch makes its native call inside
\* detail::skip_eintr: open (line 133), write (208), read (236), pwrite (277),
\* pread (315), seek (487), truncate_to_current_position (502).
ViaSkipEintrButPWrite(op) ==
  op \in {"open", "write", "read", "pread", "seek", "truncate"}

ViaSkipEintr(op) ==
  op \in {"open", "write", "read", "pwrite", "pread", "seek", "truncate"}

\* The errno operation op sees after a native call that met nintr EINTR results
\* and then `final`: skip_eintr repeats the call while it fails with EINTR, so
\* only a call made outside it shows the interruption.
Interrupted(op, nintr, final) ==
  IF nintr > 0 /\ ~ViaSkipEintr(op) THEN "EINTR" ELSE final

\* FileFd::read, lines 234-268: whether a successful read of k bytes into a
\* buffer of n bytes clears PollFlags::Read().
ReadClearsAlways(n, k) == TRUE

ReadClears(n, k) ==
  IF platform = "POSIX" THEN k < n ELSE k = 0

\* FileFd::read, lines 234-268.
Read(h, n, fault, nintr) ==
  /\ Alive
  /\ fd[h].open
  /\ ~lk[h].active
  /\ LET c == [Call("read", h) EXCEPT !.arg = n]
         f == fd[h]
         err == Interrupted("read", nintr, IoErrno(f.acc, FALSE, fault))
         got == ReadAt(file.data, f.pos, n)
         k == Len(got)
     IN  IF err # "none"
           THEN /\ last' = IoError(c, err, nintr)
                /\ UNCHANGED fd
           ELSE /\ last' = [c EXCEPT !.res = "ok", !.n = k, !.data = got,
                                     !.calls = IoCalls(nintr)]
                /\ fd' = [fd EXCEPT ![h].pos = f.pos + k,
                            ![h].flags = IF ReadClears(n, k)
                                           THEN f.flags \ {"Read"} ELSE f.flags]
  /\ UNCHANGED <<platform, sameProc, file, locks, lk, excl, native>>

\* FileFd::write, lines 205-232.  ::write on a descriptor opened with O_APPEND
\* writes at the end of the file; WriteFile writes at the file pointer.
Write(h, buf, fault, nintr) ==
  /\ Alive
  /\ fd[h].open
  /\ ~lk[h].active
  /\ LET c == [Call("write", h) EXCEPT !.arg = Len(buf)]
         f == fd[h]
         err == Interrupted("write", nintr, IoErrno(f.acc, TRUE, fault))
         at == IF f.app THEN Len(file.data) ELSE f.pos
     IN  /\ at + Len(buf) <= MaxFile
         /\ IF err # "none"
              THEN /\ last' = IoError(c, err, nintr)
                   /\ UNCHANGED <<file, fd>>
              ELSE /\ last' = [c EXCEPT !.res = "ok", !.n = Len(buf),
                                        !.calls = IoCalls(nintr)]
                   /\ file' = [file EXCEPT !.data = WriteAt(file.data, at, buf)]
                   /\ fd' = [fd EXCEPT ![h].pos = at + Len(buf)]
  /\ UNCHANGED <<platform, sameProc, locks, lk, excl, native>>

\* The file pointer after a positioned native call at `offset` that moved k
\* bytes: ::pread and ::pwrite (lines 277, 315) leave the file offset alone;
\* ReadFile and WriteFile with an OVERLAPPED offset (lines 300, 338) on a
\* handle CreateFile opened without FILE_FLAG_OVERLAPPED (line 177: flags 0)
\* run synchronously and update the file pointer before they return.
PositionedCursor(pos, offset, k) ==
  IF platform = "POSIX" THEN pos ELSE offset + k

\* FileFd::pread, lines 308-344.
PRead(h, n, offset, fault, nintr) ==
  /\ Alive
  /\ ~lk[h].active
  /\ LET c == [Call("pread", h) EXCEPT !.arg = offset]
         f == fd[h]
         err == Interrupted("pread", nintr,
                            PositionedErrno(f.acc, FALSE, fault, offset))
         got == ReadAt(file.data, offset, n)
         k == Len(got)
     IN  IF OffsetRejected(offset)
           THEN /\ last' = [c EXCEPT !.res = "err", !.kind = "Error",
                                     !.msg = "Offset must be non-negative"]
                /\ UNCHANGED fd
         ELSE /\ fd[h].open
              /\ IF err # "none"
                   THEN /\ last' = IoError(c, err, nintr)
                        /\ UNCHANGED fd
                   ELSE /\ last' = [c EXCEPT !.res = "ok", !.n = k, !.data = got,
                                             !.len = n, !.calls = IoCalls(nintr)]
                        /\ fd' = [fd EXCEPT ![h].pos =
                                    PositionedCursor(f.pos, offset, k)]
  /\ UNCHANGED <<platform, sameProc, file, locks, lk, excl, native>>

\* FileFd::pwrite, lines 270-306.  atend: the descriptor was opened with
\* O_APPEND and the kernel is one (Linux) whose ::pwrite then appends at the
\* end of the file whatever the offset.
PWrite(h, buf, offset, fault, nintr, atend) ==
  /\ Alive
  /\ ~lk[h].active
  /\ atend => (fd[h].open /\ fd[h].app /\ offset >= 0)
  /\ LET c == [Call("pwrite", h) EXCEPT !.arg = offset]
         f == fd[h]
         err == Interrupted("pwrite", nintr,
                            PositionedErrno(f.acc, TRUE, fault, offset))
         at == IF atend THEN Len(file.data) ELSE offset
     IN  IF OffsetRejected(offset)
           THEN /\ last' = [c EXCEPT !.res = "err", !.kind = "Error",
                                     !.msg = "Offset must be non-negative"]
                /\ UNCHANGED <<file, fd>>
         ELSE /\ fd[h].open
              /\ at + Len(buf) <= MaxFile
              /\ IF err # "none"
                   THEN /\ last' = IoError(c, err, nintr)
                        /\ UNCHANGED <<file, fd>>
                   ELSE /\ last' = [c EXCEPT !.res = "ok", !.n = Len(buf),
                                             !.data = buf, !.calls = IoCalls(nintr)]
                        /\ file' = [file EXCEPT !.data = WriteAt(file.data, at, buf)]
                        /\ fd' = [fd EXCEPT ![h].pos =
                                    PositionedCursor(f.pos, offset, Len(buf))]
  /\ UNCHANGED <<platform, sameProc, locks, lk, excl, native>>

\* FileFd::seek, lines 483-496: lseek(SEEK_SET) / SetFilePointerEx(FILE_BEGIN).
Seek(h, position) ==
  /\ Alive
  /\ ~lk[h].active
  /\ LET c == [Call("seek", h) EXCEPT !.arg = position, !.calls = 1]
     IN  IF empty(h)
           THEN /\ last' = CheckFailed("seek", h)
                /\ UNCHANGED fd
         ELSE IF position < 0
           THEN /\ last' = [c EXCEPT !.res = "err", !.kind = "OsError",
                              !.code = IF platform = "POSIX" THEN "EINVAL"
                                       ELSE "ERROR_NEGATIVE_SEEK",
                              !.msg = "Seek failed"]
                /\ UNCHANGED fd
           ELSE /\ last' = [c EXCEPT !.res = "ok"]
                /\ fd' = [fd EXCEPT ![h].pos = position]
  /\ UNCHANGED <<platform, sameProc, file, locks, lk, excl, native>>

\* The reactor that owns the PollableFdInfo handed out by get_poll_info (lines
\* 510-515) reports the descriptor ready: PollableFdInfo::add_flags.
ReactorAddFlags(h, flag) ==
  /\ Alive
  /\ fd[h].open
  /\ flag \notin fd[h].flags
  /\ fd' = [fd EXCEPT ![h].flags = @ \cup {flag}]
  /\ last' = [Call("add_flags", h) EXCEPT !.res = "ok"]
  /\ UNCHANGED <<platform, sameProc, file, locks, lk, excl, native>>

\* A positioned call the environment fails transfers nothing and keeps no
\* trace of its buffer: one buffer, the empty one, stands for them all.
Transfers(fault, n) == fault # "none" => n = 0

\* A positioned call rejected for its offset issues no native call: it meets
\* no failure of the environment and no interruption.
ReachesNative(offset, fault, nintr) == offset < 0 => (fault = "none" /\ nintr = 0)

IoFlagSets ==
  {{"Read"}, {"Read", "Write"}, {"Read", "Write", "Append"}}

NextIO ==
  \/ \E flags \in IoFlagSets : Open(1, flags, "none", 0, TRUE, TRUE, TRUE)
  \/ Close(1)
  \/ \E n \in 0..MaxBuf, fault \in IoFaults, nintr \in Interrupts :
       Read(1, n, fault, nintr)
  \/ \E buf \in Buffers, fault \in IoFaults, nintr \in Interrupts :
       Write(1, buf, fault, nintr)
  \/ \E n \in 0..MaxBuf, offset \in -1..MaxFile, fault \in IoFaults,
        nintr \in Interrupts :
       /\ Transfers(fault, n)
       /\ ReachesNative(offset, fault, nintr)
       /\ PRead(1, n, offset, fault, nintr)
  \/ \E buf \in Buffers, offset \in -1..MaxFile, fault \in IoFaults,
        nintr \in Interrupts, atend \in BOOLEAN :
       /\ Transfers(fault, Len(buf))
       /\ ReachesNative(offset, fault, nintr)
       /\ PWrite(1, buf, offset, fault, nintr, atend)
  \/ \E position \in -1..MaxFile : Seek(1, position)
  \/ \E flag \in {"Read", "Write"} : ReactorAddFlags(1, flag)

InitIO == Init /\ sameProc = FALSE /\ file.exists

SpecIO == InitIO /\ [][NextIO]_vars

---------------------------------------------------------------------------
(* sync, truncate_to_current_position.                                     *)

SyncFaults ==
  IF platform = "POSIX" THEN {"none", "EIO"} ELSE {"none", "ERROR_GEN_FAILURE"}

\* FileFd::sync, lines 471-481: fsync / FlushFileBuffers, which needs a handle
\* opened with GENERIC_WRITE.
Sync(h, fault) ==
  /\ Alive
  /\ ~lk[h].active
  /\ LET c == [Call("sync", h) EXCEPT !.calls = 1]
         err == IF fault # "none" THEN fault
                ELSE IF platform = "WINDOWS" /\ fd[h].acc = "r"
                  THEN "ERROR_ACCESS_DENIED"
                ELSE "none"
     IN  last' = IF empty(h) THEN CheckFailed("sync", h)
                 ELSE IF err # "none"
                   THEN [c EXCEPT !.res = "err", !.kind = "OsError", !.code = err,
                                  !.msg = "Sync failed"]
                 ELSE [c EXCEPT !.res = "ok"]
  /\ UNCHANGED <<platform, sameProc, file, fd, locks, lk, excl, native>>

\* FileFd::truncate_to_current_position, lines 502 and 504: the length the file
\* is cut or extended to.  ::ftruncate takes the argument; SetEndOfFile takes
\* the file pointer of the handle.
TruncateTarget(pos, current_position) ==
  IF platform = "POSIX" THEN current_position ELSE pos

\* The contents of a file resized to n bytes.
Resized(d, n) == [i \in 1..n |-> IF i <= Len(d) THEN d[i] ELSE 0]

\* FileFd::truncate_to_current_position, lines 498-509.
Truncate(h, current_position, fault, nintr) ==
  /\ Alive
  /\ ~lk[h].active
  /\ LET c == [Call("truncate", h) EXCEPT !.arg = current_position,
                                          !.calls = IoCalls(nintr)]
         target == TruncateTarget(fd[h].pos, current_position)
         err == IF fault # "none" THEN fault
                ELSE IF target < 0 \/ fd[h].acc = "r"
                  THEN (IF platform = "POSIX" THEN "EINVAL"
                        ELSE "ERROR_ACCESS_DENIED")
                ELSE "none"
     IN  IF empty(h)
           THEN /\ last' = CheckFailed("truncate", h)
                /\ UNCHANGED file
         ELSE IF err # "none"
           THEN /\ last' = [c EXCEPT !.res = "err", !.kind = "OsError",
                                     !.code = err, !.msg = "Truncate failed"]
                /\ UNCHANGED file
         ELSE /\ target <= MaxFile
              /\ last' = [c EXCEPT !.res = "ok", !.n = target]
              /\ file' = [file EXCEPT !.data = Resized(file.data, target)]
  /\ UNCHANGED <<platform, sameProc, fd, locks, lk, excl, native>>

---------------------------------------------------------------------------
(* The native handle: get_native_fd, move_as_native_fd, from_native_fd,    *)
(* move construction and assignment, destruction.                          *)

\* FileFd h holds no native lock the model keeps by FileFd value (the locks of
\* a handle stay with the handle when it changes hands).
Unlocked(h) == locks[LockOwner(h)] = NoLock /\ ~excl[h]

\* FileFd::get_native_fd, lines 418-420, on a FileFd with an impl.
GetNativeFd(h) ==
  /\ Alive
  /\ fd[h].open
  /\ ~lk[h].active
  /\ last' = [Call("get_native_fd", h) EXCEPT !.res = "ok", !.n = fd[h].nfd]
  /\ UNCHANGED <<platform, sameProc, file, fd, locks, lk, excl, native>>

\* FileFd::move_as_native_fd, line 423: get_poll_info().move_as_native_fd()
\* moves the NativeFd out of the impl, into the value returned to the caller.
MoveOut(nat, f) == [nat EXCEPT ![f.nfd] = NativeHeld(f)]

\* FileFd::move_as_native_fd, lines 422-426, on a FileFd with an impl:
\* impl_.reset() then destroys the impl, closing what its NativeFd still holds.
MoveAsNativeFd(h) ==
  /\ Alive
  /\ fd[h].open
  /\ ~lk[h].active
  /\ Unlocked(h)
  /\ LET id == fd[h].nfd
         moved == MoveOut(native, fd[h])
         closes == moved[id].st = "impl"
     IN  /\ native' = IF closes THEN ReleaseNative(moved, id) ELSE moved
         /\ last' = [Call("move_as_native_fd", h) EXCEPT
                       !.res = "ok", !.n = id, !.rel = IF closes THEN id ELSE 0]
  /\ fd' = [fd EXCEPT ![h] = ImplReset(fd[h])]
  /\ UNCHANGED <<platform, sameProc, file, locks, lk, excl>>

\* FileFd::from_native_fd, lines 198-203, given the NativeFd a caller holds, the
\* FileFd returned moved into the empty value h.
FromNativeFd(h, id) ==
  /\ Alive
  /\ ~fd[h].open
  /\ ~lk[h].active
  /\ native[id].st = "caller"
  /\ fd' = [fd EXCEPT ![h] =
              from_native_fd(id, native[id].acc, native[id].app, native[id].pos)]
  /\ native' = [native EXCEPT ![id] = NativeImpl]
  /\ last' = [Call("from_native_fd", h) EXCEPT !.res = "ok", !.n = id]
  /\ UNCHANGED <<platform, sameProc, file, locks, lk, excl>>

\* FileFd &FileFd::operator=(FileFd &&) = default, line 91: dst = std::move(src)
\* for two values of one process.  The unique_ptr assignment destroys the impl
\* dst held, hands src's impl to dst and leaves src empty.  The move
\* constructor (line 90) is the case of an empty dst.
MoveAssign(dst, src) ==
  /\ Alive
  /\ sameProc
  /\ dst # src
  /\ ~lk[dst].active /\ ~lk[src].active
  /\ Unlocked(src)
  /\ fd' = [fd EXCEPT ![dst] = fd[src], ![src] = ImplReset(fd[src])]
  /\ native' = IF fd[dst].open THEN ReleaseNative(native, fd[dst].nfd) ELSE native
  /\ locks' = IF fd[dst].open THEN [locks EXCEPT ![LockOwner(dst)] = NoLock]
              ELSE locks
  /\ excl' = [excl EXCEPT ![dst] = FALSE]
  /\ last' = [Call("move_assign", dst) EXCEPT !.res = "ok", !.n = src,
                                               !.rel = fd[dst].nfd]
  /\ UNCHANGED <<platform, sameProc, file, lk>>

\* FileFd::~FileFd() = default, line 92: the value h goes out of scope, its impl
\* is destroyed; h then stands for a new default-constructed value.
Destroy(h) ==
  /\ Alive
  /\ ~lk[h].active
  /\ fd' = [fd EXCEPT ![h] = ImplReset(fd[h])]
  /\ native' = IF fd[h].open THEN ReleaseNative(native, fd[h].nfd) ELSE native
  /\ locks' = IF fd[h].open THEN [locks EXCEPT ![LockOwner(h)] = NoLock] ELSE locks
  /\ excl' = [excl EXCEPT ![h] = FALSE]
  /\ last' = [Call("destroy", h) EXCEPT !.res = "ok", !.rel = fd[h].nfd]
  /\ UNCHANGED <<platform, sameProc, file, lk>>

\* The operations that reach the native fd of the FileFd through
\* get_native_fd() / get_poll_info() without a check of empty(): read (lines
\* 236, 257), write (208, 224), pread (315, 338) and pwrite (277, 300) once the
\* offset passed, lock (375, 379) once max_tries passed, get_native_fd (419)
\* and move_as_native_fd (423).
UncheckedOps ==
  {"read", "write", "pread", "pwrite", "lock", "get_native_fd", "move_as_native_fd"}

\* What dereferencing the null impl_ (get_poll_info, lines 510-515: impl_->info)
\* can do: the load faults and the process dies of the signal, or the call
\* goes on with an indeterminate descriptor.
NullImplOutcomes == {"SIGSEGV", "goes on"}

\* One of the unchecked operations called on a FileFd without an impl.
NullImpl(h, op, outcome) ==
  /\ Alive
  /\ empty(h)
  /\ ~lk[h].active
  /\ last' = LET c == [Call(op, h) EXCEPT !.arg = IF op = "lock" THEN 1 ELSE 0]
             IN  IF outcome = "SIGSEGV"
                   THEN [c EXCEPT !.res = "abort", !.kind = "SIGSEGV"]
                   ELSE [c EXCEPT !.res = "undefined",
                           !.calls = IF op \in {"get_native_fd", "move_as_native_fd"}
                                       THEN 0 ELSE 1]
  /\ UNCHANGED <<platform, sameProc, file, fd, locks, lk, excl, native>>

---------------------------------------------------------------------------
(* lock.                                                                   *)

LockModes == {"Read", "Write", "Unlock"}

LockFaults ==
  IF platform = "POSIX" THEN {"none", "ENOLCK"} ELSE {"none", "ERROR_INVALID_HANDLE"}

\* The native code lock() takes for "held by another process": errno == EAGAIN
\* (line 376), GetLastError() == ERROR_LOCK_VIOLATION (line 394).
Contention == IF platform = "POSIX" THEN "EAGAIN" ELSE "ERROR_LOCK_VIOLATION"

\* One native attempt by FileFd h: fcntl(native_fd, F_SETLK, &lock) on the
\* whole file (lines 357-375), whose locks belong to the process, replace the
\* process's earlier lock and need the matching access; UnlockFileEx /
\* LockFileEx(LOCKFILE_FAIL_IMMEDIATELY) on the whole file (lines 378-391),
\* whose locks belong to the handle and stack.
NativeLock(h, mode, fault) ==
  LET o == LockOwner(h)
      mine == locks[o]
      othersX == \E p \in Owners \ {o} : locks[p].x > 0
      othersS == \E p \in Owners \ {o} : locks[p].s > 0
      fail(code) == [ok |-> FALSE, code |-> code, locks |-> locks]
      done(l) == [ok |-> TRUE, code |-> "none", locks |-> [locks EXCEPT ![o] = l]]
  IN  IF fault # "none" THEN fail(fault)
      ELSE IF platform = "POSIX"
        THEN CASE mode = "Unlock" -> done(NoLock)
               [] mode = "Read" ->
                    IF fd[h].acc = "w" THEN fail("EBADF")
                    ELSE IF othersX THEN fail("EAGAIN")
                    ELSE done([x |-> 0, s |-> 1])
               [] OTHER ->
                    IF fd[h].acc = "r" THEN fail("EBADF")
                    ELSE IF othersX \/ othersS THEN fail("EAGAIN")
                    ELSE done([x |-> 1, s |-> 0])
        ELSE CASE mode = "Unlock" ->
                    IF mine.x > 0 THEN done([mine EXCEPT !.x = 0])
                    ELSE IF mine.s > 0 THEN done([mine EXCEPT !.s = @ - 1])
                    ELSE fail("ERROR_NOT_LOCKED")
               [] mode = "Read" ->
                    IF othersX THEN fail("ERROR_LOCK_VIOLATION")
                    ELSE done([mine EXCEPT !.s = @ + 1])
               [] OTHER ->
                    IF othersX \/ othersS \/ mine.x > 0 \/ mine.s > 0
                      THEN fail("ERROR_LOCK_VIOLATION")
                    ELSE done([mine EXCEPT !.x = 1])

\* FileFd::lock, lines 376 and 394: the test that sends a failed attempt to the
\* retry branch.
IsContentionAnyFailure(code) == TRUE

IsContention(code) == code = Contention

\* FileFd::lock, lines 347-349: the check of max_tries.
MaxTriesRejectedBelowZero(max_tries) == max_tries < 0

MaxTriesRejected(max_tries) == max_tries <= 0

\* FileFd::lock, line 396: if (--max_tries > 0), with `tries` the value of
\* max_tries before the decrement.
RetriesPostDecrement(tries) == tries > 0

Retries(tries) == tries - 1 > 0

\* Whether FileFd h is known to hold an exclusive lock once lock(mode) returned
\* OK on it: F_SETLK replaces the earlier lock, LockFileEx adds to it and
\* UnlockFileEx releases the exclusive lock first.
ExclAfter(h, mode) ==
  CASE mode = "Write" -> TRUE
    [] mode = "Unlock" -> FALSE
    [] OTHER -> IF platform = "POSIX" THEN FALSE ELSE excl[h]

\* FileFd::lock, lines 355-407: one turn of the loop, entered with `tries`
\* attempts left after `attempts` attempts and `sleeps` sleeps.
LockAttempt(h, mode, max, tries, attempts, sleeps, fault) ==
  LET out == NativeLock(h, mode, fault)
      c == [Call("lock", h) EXCEPT !.mode = mode, !.arg = max, !.fault = fault,
                                   !.calls = attempts + 1, !.sleeps = sleeps]
  IN  IF out.ok
        THEN /\ last' = [c EXCEPT !.res = "ok"]
             /\ locks' = out.locks
             /\ excl' = [excl EXCEPT ![h] = ExclAfter(h, mode)]
             /\ lk' = [lk EXCEPT ![h] = Idle]
      ELSE IF IsContention(out.code)
        THEN IF Retries(tries)
               THEN /\ last' = [c EXCEPT !.res = "sleeping", !.sleeps = sleeps + 1]
                    /\ lk' = [lk EXCEPT ![h] =
                                [active |-> TRUE, mode |-> mode, max |-> max,
                                 tries |-> tries - 1, attempts |-> attempts + 1,
                                 sleeps |-> sleeps + 1]]
                    /\ UNCHANGED <<locks, excl>>
               ELSE /\ last' = [c EXCEPT !.res = "err", !.kind = "OsError",
                                  !.code = out.code,
                                  !.msg = "Can't lock file because it is already in use"]
                    /\ lk' = [lk EXCEPT ![h] = Idle]
                    /\ UNCHANGED <<locks, excl>>
      ELSE /\ last' = [c EXCEPT !.res = "err", !.kind = "OsError",
                         !.code = out.code, !.msg = "Can't lock file"]
           /\ lk' = [lk EXCEPT ![h] = Idle]
           /\ UNCHANGED <<locks, excl>>

\* FileFd::lock, lines 346-408: the call, up to its return or its first sleep.
Lock(h, mode, max_tries, fault) ==
  /\ Alive
  /\ ~lk[h].active
  /\ IF MaxTriesRejected(max_tries)
       THEN /\ last' = [Call("lock", h) EXCEPT !.mode = mode, !.arg = max_tries,
                          !.res = "err", !.kind = "Error",
                          !.msg = "Can't lock file: wrong max_tries"]
            /\ UNCHANGED <<locks, lk, excl>>
       ELSE /\ fd[h].open
            /\ (platform = "WINDOWS" /\ mode = "Read") => locks[LockOwner(h)].s < MaxShared
            /\ LockAttempt(h, mode, max_tries, max_tries, 0, 0, fault)
  /\ UNCHANGED <<platform, sameProc, file, fd, native>>

\* FileFd::lock, lines 397-398: usleep_for(100000) returns and the loop
\* continues with the next attempt.
LockRetry(h, fault) ==
  /\ Alive
  /\ lk[h].active
  /\ LockAttempt(h, lk[h].mode, lk[h].max, lk[h].tries, lk[h].attempts,
                 lk[h].sleeps, fault)
  /\ UNCHANGED <<platform, sameProc, file, fd, native>>

NextLock ==
  \/ \E h \in Handles, flags \in {{"Read", "Write"}, {"Read"}} :
       Open(h, flags, "none", 0, TRUE, TRUE, TRUE)
  \/ \E h \in Handles : Close(h)
  \/ \E h \in Handles, mode \in LockModes, max_tries \in -1..MaxTries,
        fault \in LockFaults : Lock(h, mode, max_tries, fault)
  \/ \E h \in Handles, fault \in LockFaults : LockRetry(h, fault)

InitLock == Init /\ file = [exists |-> TRUE, data |-> <<>>]

SpecLock == InitLock /\ [][NextLock]_vars

\* The retry loop of lock alone: two FileFd values opened for Read and Write
\* that take and release the exclusive lock.  usleep_for(100000) returns (line
\* 397), so a thread sleeping in the loop goes on to its next attempt.
NextLockLoop ==
  \/ \E h \in Handles : Open(h, {"Read", "Write"}, "none", 0, TRUE, TRUE, TRUE)
  \/ \E h \in Handles : Close(h)
  \/ \E h \in Handles, mode \in {"Write", "Unlock"}, max_tries \in 1..MaxTries,
        fault \in LockFaults : Lock(h, mode, max_tries, fault)
  \/ \E h \in Handles, fault \in LockFaults : LockRetry(h, fault)

SpecLockFair ==
  /\ InitLock
  /\ [][NextLockLoop]_vars
  /\ \A h \in Handles : WF_vars(\E fault \in LockFaults : LockRetry(h, fault))

---------------------------------------------------------------------------
(* Every operation on one FileFd value.                                    *)

TruncateFaults ==
  IF platform = "POSIX" THEN {"none", "EFBIG"} ELSE {"none", "ERROR_DISK_FULL"}

\* One failure of the environment for read, write, pread and pwrite.
HardFaults ==
  IF platform = "POSIX" THEN {"none", "EINVAL"} ELSE {"none", "ERROR_GEN_FAILURE"}

NextHandle ==
  \/ \E flags \in {{"Read"}, {"Read", "Write"}}, fault \in OpenFaults :
       Open(1, flags, fault, 0, TRUE, TRUE, TRUE)
  \/ Close(1)
  \/ \E fault \in StatFaults : Stat(1, fault)
  \/ \E fault \in SyncFaults : Sync(1, fault)
  \/ \E current_position \in -1..1, fault \in TruncateFaults :
       Truncate(1, current_position, fault, 0)
  \/ \E position \in -1..1 : Seek(1, position)
  \/ \E n \in 0..1, fault \in HardFaults : Read(1, n, fault, 0)
  \/ \E buf \in {<<>>, <<1>>}, fault \in HardFaults : Write(1, buf, fault, 0)
  \/ \E n \in 0..1, offset \in -1..1, fault \in HardFaults :
       /\ Transfers(fault, n)
       /\ PRead(1, n, offset, fault, 0)
  \/ \E buf \in {<<>>, <<1>>}, offset \in -1..1, fault \in HardFaults :
       /\ Transfers(fault, Len(buf))
       /\ PWrite(1, buf, offset, fault, 0, FALSE)
  \/ \E mode \in LockModes, max_tries \in 0..2, fault \in LockFaults :
       Lock(1, mode, max_tries, fault)
  \/ \E fault \in LockFaults : LockRetry(1, fault)
  \/ GetNativeFd(1)
  \/ \E op \in UncheckedOps, outcome \in NullImplOutcomes : NullImpl(1, op, outcome)

InitHandle == Init /\ sameProc = FALSE /\ file = [exists |-> TRUE, data |-> <<1, 2>>]

SpecHandle == InitHandle /\ [][NextHandle]_vars

---------------------------------------------------------------------------
(* The FileFd values of one process and the native handles they own.       *)

NextOwn ==
  \/ \E h \in Handles, flags \in {{"Read", "Write"}, {"Write", "Append"}},
        fault \in OpenFaults, seekok \in BOOLEAN :
       Open(h, flags, fault, 0, TRUE, seekok, TRUE)
  \/ \E h \in Handles : Close(h)
  \/ \E h \in Handles : GetNativeFd(h)
  \/ \E h \in Handles : MoveAsNativeFd(h)
  \/ \E h \in Handles, id \in NativeIds : FromNativeFd(h, id)
  \/ \E dst \in Handles, src \in Handles : MoveAssign(dst, src)
  \/ \E h \in Handles : Destroy(h)
  \/ \E h \in Handles : Write(h, <<1>>, "none", 0)
  \/ \E h \in Handles : Read(h, 1, "none", 0)
  \/ \E h \in Handles : Seek(h, 0)

InitOwn == Init /\ sameProc = TRUE /\ file.exists

SpecOwn == InitOwn /\ [][NextOwn]_vars

---------------------------------------------------------------------------
(* Claims about open.                                                      *)

\* The flags values the specification calls invalid: a bit outside the six
\* enumerated ones, or neither Read nor Write.
ClaimInvalidFlags(flags) ==
  \/ \E b \in flags :
       b \notin {"Read", "Write", "Truncate", "Create", "Append", "CreateNew"}
  \/ ("Read" \notin flags /\ "Write" \notin flags)

\* C1, as stated: open returns a ValidationError and issues no native call when
\* the flags hold a bit outside the enumerated set or neither Read nor Write;
\* for every other flags value the native open is attempted.
C1_NativeOpenAlwaysAttempted ==
  last.op = "open" =>
    IF ClaimInvalidFlags(last.flags)
      THEN last.res = "err" /\ last.kind = "Error" /\ last.calls = 0
      ELSE last.calls >= 1

\* C1, amended: open returns a ValidationError, issues no native call and leaves
\* the file and the FileFd alone when the flags are invalid; for every other
\* flags value validation passes and the native open is attempted, unless (on
\* the Windows branch) converting the path to UTF-16 fails first.
C1_ValidationBeforeNativeOpen ==
  /\ [](last.op = "open" =>
          IF ClaimInvalidFlags(last.flags)
            THEN /\ last.res = "err" /\ last.kind = "Error" /\ last.calls = 0
                 /\ last.msg \in {"has failed to be", "can't be"}
            ELSE \/ last.calls >= 1
                 \/ /\ platform = "WINDOWS"
                    /\ last.res = "err" /\ last.kind = "Error" /\ last.calls = 0
                    /\ last.msg = "Failed to convert file path")
  /\ [][(last'.op = "open" /\ ClaimInvalidFlags(last'.flags))
          => (file' = file /\ fd' = fd)]_vars

C1_Witness ==
  /\ last.op = "open" /\ last.flags = {"Truncate", "Create"}
  /\ last.res = "err" /\ last.calls = 0 /\ ~file.exists

\* The native open or create call was issued and met no failure of the
\* environment (permissions, the append reposition).
NativeOpenUndisturbed(c) ==
  /\ c.op = "open" /\ c.calls >= 1 /\ c.fault = "none"
  /\ c.msg # "Failed to seek to the end of file"

\* C2, as stated: every valid flags value with CreateNew set, whatever other
\* bits (Create included) are set, requests exclusive creation: on an existing
\* path open fails with an OSError and leaves the file untouched, on a
\* non-existent path it succeeds and stat reports size 0.
C2_CreateNewAlwaysExclusive ==
  [][(NativeOpenUndisturbed(last') /\ "CreateNew" \in last'.flags)
       => IF file.exists
            THEN last'.res = "err" /\ last'.kind = "OsError" /\ file' = file
            ELSE last'.res = "ok" /\ file'.exists /\ StatSize(last'.h)' = 0]_vars

\* C2, amended: every valid flags value with CreateNew set and Create not set
\* requests exclusive creation: when the native call is issued and meets no
\* unrelated failure, on an existing path open fails with an OSError (the
\* file exists) and leaves the file untouched, and on a non-existent path it
\* succeeds and stat reports size 0.
C2_CreateNewWithoutCreateExclusive ==
  [][(NativeOpenUndisturbed(last') /\ "CreateNew" \in last'.flags
        /\ "Create" \notin last'.flags)
       => /\ last'.disp = "create-exclusive"
          /\ IF file.exists
               THEN /\ last'.res = "err" /\ last'.kind = "OsError"
                    /\ last'.code \in {"EEXIST", "ERROR_FILE_EXISTS"}
                    /\ file' = file /\ fd' = fd
               ELSE /\ last'.res = "ok" /\ file'.exists /\ StatSize(last'.h)' = 0
                    /\ fd'[last'.h].open]_vars

C2_Witness ==
  /\ last.op = "open" /\ "CreateNew" \in last.flags /\ "Create" \notin last.flags
  /\ last.res = "err" /\ last.code \in {"EEXIST", "ERROR_FILE_EXISTS"}
  /\ file.exists /\ file.data = <<1, 2>>

\* The disposition matrix of the specification, its rows read in order.
MatrixDisposition(flags) ==
  CASE "Create" \in flags /\ "Truncate" \in flags -> "create-or-truncate"
    [] "Create" \in flags /\ "Truncate" \notin flags -> "create-or-open"
    [] "Create" \notin flags /\ "CreateNew" \in flags -> "create-exclusive"
    [] flags \cap {"Create", "CreateNew"} = {} /\ "Truncate" \in flags
         -> "truncate-existing-only"
    [] OTHER -> "open-existing-only"

MatrixAccess(flags) ==
  CASE "Read" \in flags /\ "Write" \in flags -> "rw"
    [] "Write" \in flags /\ "Read" \notin flags -> "w"
    [] OTHER -> "r"

\* C3: for every flags value that passes validation the POSIX translation and
\* the Windows translation select the same disposition and the same access
\* mode, both the ones of the matrix, and the native call is issued with them.
C3_TranslationsAgree ==
  (last.op = "open" /\ ~ClaimInvalidFlags(last.flags)) =>
    LET f == last.flags
        pd == PosixDisposition(PosixNativeFlags(f))
        wd == WinDisposition(WinCreationDisposition(f))
        pa == PosixAccess(PosixNativeFlags(f))
        wa == WinAccess(WinDesiredAccess(f))
    IN  /\ pd = wd /\ pd = MatrixDisposition(f)
        /\ pa = wa /\ pa = MatrixAccess(f)
        /\ last.calls >= 1 => (last.disp = pd /\ last.acc = pa)

C3_Witness ==
  /\ last.op = "open" /\ last.res = "ok"
  /\ last.flags = {"Write", "Truncate", "Create", "CreateNew", "Append"}
  /\ last.disp = "create-or-truncate" /\ last.acc = "w"

---------------------------------------------------------------------------
(* Claims about read, write, pread and pwrite.                             *)

\* C4: every successful read that returns fewer bytes than the buffer size, or
\* zero bytes, leaves the Readable flag cleared, on both platform branches and
\* for every buffer size, the empty buffer included.
C4_ShortReadClearsReadable ==
  (last.op = "read" /\ last.res = "ok" /\ (last.n < last.arg \/ last.n = 0))
    => "Read" \notin fd[last.h].flags

\* The native errors the specification calls transient: would-block,
\* resource-temporarily-unavailable, I/O-pending (EIO is what the POSIX
\* branches test for in that place).
ClaimTransient == {"EWOULDBLOCK", "EAGAIN", "EIO", "ERROR_IO_PENDING"}

\* C5: when the native call of read, write, pread or pwrite fails, a transient
\* error is returned without a log record and every other error is returned
\* after exactly one error-severity log record.
C5_FailuresLoggedUnlessTransient ==
  (last.op \in {"read", "write", "pread", "pwrite"} /\ last.res = "err"
     /\ last.calls >= 1)
    => /\ last.kind = "OsError"
       /\ last.logs = IF last.code \in ClaimTransient THEN 0 ELSE 1

\* C6: pread and pwrite called with offset < 0 return a ValidationError at
\* once: no native call, no log record, and the file contents, the cursor and
\* the readiness flags are unchanged.
C6_NegativeOffsetRejected ==
  /\ [](last.op \in {"pread", "pwrite"} /\ last.arg < 0
          => /\ last.res = "err" /\ last.kind = "Error"
             /\ last.calls = 0 /\ last.logs = 0)
  /\ [][(last'.op \in {"pread", "pwrite"} /\ last'.arg < 0)
          => (file' = file /\ fd' = fd)]_vars

C6_Witness ==
  /\ last.op = "pwrite" /\ last.arg < 0 /\ last.res = "err"
  /\ fd[1].open /\ fd[1].pos > 0 /\ "Read" \in fd[1].flags
  /\ Len(file.data) > 0

\* C10: pread and pwrite never change the sequential cursor, whether they
\* succeed or fail, on both platform branches; and the offset they address is
\* the one passed, whatever read, write and seek did to the cursor before.
C10_PositionedLeavesCursor ==
  /\ [][(last'.op \in {"pread", "pwrite"} /\ fd[last'.h].open)
          => fd'[last'.h].pos = fd[last'.h].pos]_vars
  /\ [](last.op = "pread" /\ last.res = "ok"
          => last.data = SubSeq(file.data, last.arg + 1, last.arg + last.n))

\* C11: on a handle opened for Read and Write, pwrite(buf, offset) followed by
\* pread(len(buf), offset) returns buf, for every offset >= 0: the bytes of buf
\* sit at `offset` once pwrite returned, the read and seek calls made between
\* the two leave the file contents alone, pread returns the bytes found at its
\* offset, and so a pread that follows the pwrite returns buf.
C11_PWriteThenPReadReturnsBuf ==
  /\ [][(last'.op = "pwrite" /\ last'.res = "ok" /\ fd[last'.h].acc = "rw")
          => ReadAt(file'.data, last'.arg, Len(last'.data)) = last'.data]_vars
  /\ [][last'.op \in {"read", "seek"} => file' = file]_vars
  /\ [](last.op = "pread" /\ last.res = "ok"
          => last.data = ReadAt(file.data, last.arg, last.len))
  /\ [][(/\ last.op = "pwrite" /\ last.res = "ok" /\ fd[last.h].acc = "rw"
          /\ last'.op = "pread" /\ last'.res = "ok" /\ last'.h = last.h
          /\ last'.arg = last.arg /\ last'.len = Len(last.data))
          => last'.data = last.data]_vars

C19_InterruptionInvisible ==
  /\ [](last.op \in {"read", "write", "pread", "pwrite"}
          => /\ last.code # "EINTR"
             /\ last.logs = IF platform = "POSIX" /\ last.res = "err"
                                /\ last.calls >= 1
                              THEN PosixLogs(last.code) ELSE 0)
  /\ [][(last'.op \in {"read", "write", "pread", "pwrite"} /\ last'.calls > 1)
          => LET h == last'.h
             IN  /\ last'.res \in {"ok", "err"}
                 /\ last'.res = "err" => (fd' = fd /\ file' = file)
                 /\ last'.op # "read" => fd'[h].flags = fd[h].flags
                 /\ (last'.op = "read" /\ last'.res = "ok")
                      => /\ last'.data = ReadAt(file.data, fd[h].pos, last'.arg)
                         /\ fd'[h].flags = IF ReadClears(last'.arg, last'.n)
                                             THEN fd[h].flags \ {"Read"}
                                             ELSE fd[h].flags
                 /\ (last'.op = "pread" /\ last'.res = "ok")
                      => last'.data = ReadAt(file.data, last'.arg, last'.len)
                 /\ (last'.op \in {"write", "pwrite"} /\ last'.res = "ok")
                      => Len(file'.data) >= last'.n]_vars

C19_Witness ==
  /\ last.op = "pwrite" /\ last.res = "ok" /\ last.calls = MaxIntr + 1
  /\ last.n = MaxBuf /\ "Read" \in fd[last.h].flags

---------------------------------------------------------------------------
(* Claims about close, empty and the native handle.                        *)

\* FileFd h owns native handle id: its impl holds it and it is open.
Owns(h, id) == fd[h].open /\ fd[h].nfd = id /\ native[id].st = "impl"

\* C12: empty() is true exactly when the FileFd owns no native resource; close
\* on a non-empty FileFd releases the native handle it owns and makes empty()
\* true; close on an empty FileFd changes nothing and reports no error.
C12_CloseIdempotentEmptyTracksOwnership ==
  /\ [](\A h \in Handles : empty(h) <=> ~(\E id \in NativeIds : Owns(h, id)))
  /\ [][last'.op = "close"
          => LET h == last'.h
             IN  /\ last'.res = "ok"
                 /\ ~fd'[h].open
                 /\ \A g \in Handles \ {h} : fd'[g] = fd[g]
                 /\ IF empty(h)
                      THEN /\ last'.rel = 0
                           /\ fd' = fd /\ native' = native /\ file' = file
                           /\ locks' = locks /\ lk' = lk
                      ELSE /\ last'.rel = fd[h].nfd
                           /\ native'[fd[h].nfd].st = "closed"
                           /\ \A id \in NativeIds \ {fd[h].nfd} :
                                native'[id] = native[id]]_vars

C12_Witness ==
  /\ last.op = "close" /\ last.rel = 0 /\ empty(last.h)
  /\ \E g \in Handles : ~empty(g)
  /\ \E id \in NativeIds : native[id].st = "closed"

\* C20: every native handle the FileFd values obtained is owned by exactly one
\* FileFd, or held by the caller it was handed to, or closed: none is owned
\* twice, none is left open without an owner (the open whose append
\* reposition fails closes the handle it got), none is released unless it was
\* open, and move_as_native_fd leaves the FileFd empty and hands out the
\* handle open, without releasing it.
C20_NativeHandleReleasedOnce ==
  /\ [](\A id \in NativeIds :
          native[id].st = "impl"
            => Cardinality({h \in Handles : fd[h].open /\ fd[h].nfd = id}) = 1)
  /\ [](\A h \in Handles : fd[h].open => Owns(h, fd[h].nfd))
  /\ [][/\ last'.rel # 0
            => /\ native[last'.rel].st = "impl" \/ last'.got = last'.rel
               /\ native'[last'.rel].st = "closed"
        /\ \A id \in NativeIds :
             (native[id].st # "closed" /\ native'[id].st = "closed")
               => last'.rel = id
        /\ last'.got # 0 => native[last'.got].st = "closed"
        /\ last'.op = "move_as_native_fd"
            => /\ ~fd'[last'.h].open /\ last'.rel = 0
               /\ native[last'.n].st = "impl"
               /\ native'[last'.n].st = "caller"]_vars

C20_Witness ==
  /\ last.op = "open" /\ last.msg = "Failed to seek to the end of file"
  /\ last.got # 0 /\ last.rel = last.got /\ native[last.got].st = "closed"
  /\ \E id \in NativeIds : native[id].st = "caller"

\* The operations the specification takes to check for an empty FileFd
\* (get_size is stat().size_).
CheckedByContract ==
  {"read", "write", "pread", "pwrite", "lock", "stat", "sync", "seek",
   "truncate", "get_native_fd", "move_as_native_fd"}

\* C13: every operation other than close and empty, called on an empty FileFd,
\* fails through an explicit contract check before it touches any state or
\* issues a native call.
C13_EmptyHandleFailsContractCheck ==
  [][(last'.op \in CheckedByContract /\ empty(last'.h))
       => /\ last'.res = "abort" /\ last'.kind = "CHECK" /\ last'.calls = 0
          /\ fd' = fd /\ file' = file /\ native' = native /\ locks' = locks]_vars

\* C14: on a non-empty FileFd no operation ends the process: an abort comes
\* only from an operation called on an empty FileFd, and every native failure
\* of open, read, write, pread, pwrite, lock, stat, sync, seek and truncate is
\* returned to the caller as an error.
C14_NoAbortOnNonEmptyHandle ==
  /\ [][last'.res = "abort" => (last'.op # "open" /\ empty(last'.h))]_vars
  /\ [](last.code # "none" => (last.res = "err" /\ last.kind = "OsError"))

\* C15: right after a successful open or from_native_fd the FileFd is not
\* empty and its PollableFdInfo has Write set and Read not set; no other
\* operation sets Write (a move assignment hands over the impl, flags
\* included).
C15_OpenSetsWritableOnly ==
  /\ [][(last'.op \in {"open", "from_native_fd"} /\ last'.res = "ok")
          => (fd'[last'.h].open /\ fd'[last'.h].flags = {"Write"})]_vars
  /\ [][last'.op \notin {"open", "from_native_fd"}
          => \A h \in Handles :
               ("Write" \in fd'[h].flags /\ "Write" \notin fd[h].flags)
                 => /\ last'.op = "move_assign" /\ h = last'.h
                    /\ "Write" \in fd[last'.n].flags]_vars

C15_Witness ==
  /\ last.op = "from_native_fd" /\ last.res = "ok"
  /\ ~empty(last.h) /\ fd[last.h].flags = {"Write"} /\ fd[last.h].pos > 0

---------------------------------------------------------------------------
(* Claims about lock.                                                      *)

\* C7: lock called with max_tries <= 0 returns a ValidationError without a
\* native lock or unlock attempt and without sleeping, for every mode, and the
\* lock state of the file is unchanged.
C7_NonPositiveMaxTriesRejected ==
  /\ [](last.op = "lock" /\ last.arg <= 0
          => /\ last.res = "err" /\ last.kind = "Error"
             /\ last.calls = 0 /\ last.sleeps = 0 /\ last.logs = 0)
  /\ [][(last'.op = "lock" /\ last'.arg <= 0)
          => (locks' = locks /\ lk' = lk /\ excl' = excl /\ fd' = fd)]_vars

C7_Witness ==
  /\ last.op = "lock" /\ last.arg = 0 /\ last.mode = "Write" /\ last.res = "err"
  /\ fd[last.h].open
  /\ \E o \in Owners : locks[o].x > 0

\* C8: for every max_tries > 0, when every native attempt reports the lock
\* held elsewhere, lock makes exactly max_tries attempts, sleeps exactly
\* max_tries - 1 times (after every attempt but the last) and returns the
\* LockContention error, which no other native lock failure returns.
C8_ContentionExhaustsTries ==
  /\ \A h \in Handles :
       lk[h].active =>
         /\ lk[h].attempts = lk[h].sleeps
         /\ lk[h].tries > 0
         /\ lk[h].attempts + lk[h].tries = lk[h].max
  /\ (last.op = "lock" /\ last.res = "sleeping")
       => (last.calls = last.sleeps /\ last.calls < last.arg)
  /\ (last.op = "lock" /\ last.res = "err" /\ last.calls >= 1)
       => /\ last.kind = "OsError"
          /\ (last.msg = "Can't lock file because it is already in use")
               <=> (last.code = Contention)
          /\ last.code # Contention => last.msg = "Can't lock file"
          /\ last.code = Contention
               => (last.calls = last.arg /\ last.sleeps = last.arg - 1)

C8_Witness ==
  /\ last.op = "lock" /\ last.res = "err" /\ last.code = Contention
  /\ last.arg = MaxTries /\ last.calls = MaxTries /\ last.sleeps = MaxTries - 1

\* C16: in lock, a native failure other than "held by another process" is
\* returned at once as an OSError, whatever number of tries remains: the
\* failing attempt is the last one, no sleep follows it (the call has slept
\* once after each earlier attempt and not after this one), and the lock
\* state is unchanged.
C16_OtherLockFailureReturnedAtOnce ==
  [][(last'.op = "lock" /\ last'.calls >= 1)
       => LET h == last'.h
              out == NativeLock(h, last'.mode, last'.fault)
              before == IF lk[h].active THEN lk[h] ELSE Idle
          IN  (~out.ok /\ out.code # Contention)
                => /\ last'.res = "err" /\ last'.kind = "OsError"
                   /\ last'.code = out.code /\ last'.msg = "Can't lock file"
                   /\ ~lk'[h].active
                   /\ last'.calls = before.attempts + 1
                   /\ last'.sleeps = before.sleeps
                   /\ last'.sleeps = last'.calls - 1
                   /\ locks' = locks /\ excl' = excl]_vars

C16_Witness ==
  /\ last.op = "lock" /\ last.res = "err" /\ last.msg = "Can't lock file"
  /\ last.arg = MaxTries /\ last.calls = 2 /\ last.sleeps = 1
  /\ ~lk[last.h].active

\* C17: for every max_tries > 0 and every sequence of native outcomes, lock
\* makes at most max_tries native attempts and sleeps at most max_tries - 1
\* times, returns OK at the first attempt that succeeds, without a further
\* attempt or sleep, and returns.
C17_LockBoundedAndReturns ==
  /\ []((last.op = "lock" /\ last.arg > 0)
          => /\ last.calls <= last.arg /\ last.sleeps <= last.arg - 1
             /\ last.res \in {"ok", "err", "sleeping"}
             /\ last.res \in {"ok", "err"} => ~lk[last.h].active)
  /\ [](\A h \in Handles :
          lk[h].active => (lk[h].attempts < lk[h].max /\ lk[h].sleeps < lk[h].max))
  /\ [][(last'.op = "lock" /\ last'.calls >= 1
            /\ NativeLock(last'.h, last'.mode, last'.fault).ok)
          => /\ last'.res = "ok" /\ ~lk'[last'.h].active
             /\ last'.sleeps = last'.calls - 1]_vars
  /\ \A h \in Handles : lk[h].active ~> ~lk[h].active

C17_Witness ==
  /\ last.op = "lock" /\ last.res = "ok" /\ last.arg = MaxTries
  /\ last.calls = MaxTries /\ last.sleeps = MaxTries - 1

Other(h) == 3 - h

\* C9: while one handle holds an Exclusive lock, lock(Exclusive, 1) on the
\* other handle fails with LockContention after one attempt and no sleep;
\* once nothing holds a lock it succeeds; and the two handles never hold an
\* Exclusive lock at once.
C9_ExclusiveLockExcludes ==
  /\ ~(excl[1] /\ excl[2])
  /\ (last.op = "lock" /\ last.mode = "Write" /\ last.arg = 1
        /\ last.fault = "none" /\ fd[last.h].acc = "rw")
       => /\ excl[Other(last.h)]
               => /\ last.res = "err" /\ last.code = Contention
                  /\ last.msg = "Can't lock file because it is already in use"
                  /\ last.calls = 1 /\ last.sleeps = 0
          /\ last.res = "err" => \E o \in Owners : locks[o] # NoLock

===========================================================================
